---------------------------- MODULE Spec2Model ----------------------------
(***************************************************************************)
(* Model of the bootstrap / dynamo convergence drivers of TokaMaker        *)
(* (src/python/OpenFUSIONToolkit/TokaMaker/_core.py):                      *)
(*   solve_with_bootstrap, basic_dynamo_w_bootstrap, their nested          *)
(*   profile_iteration, solve_for_psi_crossing, rescale_Jtor,              *)
(*   cross_section_surf_int, ffprime_from_jtor_pprime, make_smooth and     *)
(*   TokaMaker.set_targets.                                                *)
(*                                                                         *)
(* Floating point numbers are modelled as exact rationals extended with    *)
(* the IEEE specials nan, +inf and -inf (numpy division by zero returns    *)
(* them, it does not raise).  q values and psi locations returned by the   *)
(* crossing solver are integers in hundredths (q = 1.02 is 102).           *)
(* Sequences are 1-based: index 1 is the magnetic axis (python index 0),   *)
(* index Len is the edge (python index -1).                                *)
(***************************************************************************)
EXTENDS Integers, Sequences, FiniteSets, TLC

(***************************************************************************)
(* Bounds of the model.                                                    *)
(***************************************************************************)
\* largest max_iterations argument explored
MaxIter == 1

\* n_psi = len(inductive_jtor): number of samples of every profile
NPsi == 3

(***************************************************************************)
(* Extended rational arithmetic (numpy float64 without rounding).          *)
(* A number is [n |-> numerator, d |-> denominator], d > 0 and reduced;    *)
(* d = 0 marks the specials: n = 0 nan, n = 1 +inf, n = -1 -inf.           *)
(***************************************************************************)
Abs(x) == IF x < 0 THEN -x ELSE x

Sgn(x) == IF x < 0 THEN -1 ELSE IF x > 0 THEN 1 ELSE 0

RECURSIVE Gcd(_, _)
Gcd(a, b) == IF b = 0 THEN a ELSE Gcd(b, a % b)

Norm(n, d) ==
    IF d = 0 THEN [n |-> Sgn(n), d |-> 0]
    ELSE LET g == Gcd(Abs(n), Abs(d))
         IN  [n |-> Sgn(d) * (n \div g), d |-> Abs(d) \div g]

R(i) == [n |-> i, d |-> 1]

Zero == R(0)

One == R(1)

NaN == [n |-> 0, d |-> 0]

PosInf == [n |-> 1, d |-> 0]

NegInf == [n |-> -1, d |-> 0]

IsNaN(x) == x.d = 0 /\ x.n = 0

IsInf(x) == x.d = 0 /\ x.n # 0

IsFinite(x) == x.d > 0

RSgn(x) == Sgn(x.n)

RNeg(x) == [n |-> -x.n, d |-> x.d]

RAdd(x, y) ==
    IF IsNaN(x) \/ IsNaN(y) THEN NaN
    ELSE IF IsInf(x) /\ IsInf(y) THEN (IF x.n = y.n THEN x ELSE NaN)
    ELSE IF IsInf(x) THEN x
    ELSE IF IsInf(y) THEN y
    ELSE LET g == Gcd(x.d, y.d)
         IN  Norm(x.n * (y.d \div g) + y.n * (x.d \div g), (x.d \div g) * y.d)

RSub(x, y) == RAdd(x, RNeg(y))

RMul(x, y) ==
    IF IsNaN(x) \/ IsNaN(y) THEN NaN
    ELSE IF IsInf(x) \/ IsInf(y)
         THEN (IF RSgn(x) * RSgn(y) = 0 THEN NaN
               ELSE [n |-> RSgn(x) * RSgn(y), d |-> 0])
    ELSE LET g1 == Gcd(Abs(x.n), y.d)
             g2 == Gcd(Abs(y.n), x.d)
         IN  Norm((x.n \div g1) * (y.n \div g2), (x.d \div g2) * (y.d \div g1))

\* 1/x with x/0 = +-inf and 0/0 = nan once multiplied (IEEE, unsigned zero)
RInv(x) ==
    IF IsNaN(x) THEN NaN
    ELSE IF IsInf(x) THEN Zero
    ELSE IF x.n = 0 THEN PosInf
    ELSE Norm(x.d, x.n)

RDiv(x, y) == RMul(x, RInv(y))

\* x < y on finite numbers and infinities; any comparison with nan is false
RLt(x, y) ==
    IF IsNaN(x) \/ IsNaN(y) THEN FALSE
    ELSE IF IsInf(x) \/ IsInf(y)
         THEN (IF IsInf(x) /\ IsInf(y) THEN x.n < y.n
               ELSE IF IsInf(x) THEN x.n < 0 ELSE y.n > 0)
    ELSE x.n * y.d < y.n * x.d

RMin(x, y) == IF RLt(y, x) THEN y ELSE x

\* the rational p/q
Q(p, q) == Norm(p, q)

(***************************************************************************)
(* Profiles: sequences of numbers.                                         *)
(***************************************************************************)
\* the one element of a one-element set: The({e : x \in {v}}) is e with the
\* local x computed once
The(S) == CHOOSE y \in S : TRUE

\* F(v) with the local v computed once
With(v, F(_)) == CHOOSE y \in {F(x) : x \in {v}} : TRUE

\* the sequence <<F(1), ..., F(k)>>
RECURSIVE Tab(_, _)
Tab(F(_), k) == IF k = 0 THEN <<>> ELSE Append(Tab(F, k - 1), F(k))

VScale(k, v) == Tab(LAMBDA i : RMul(k, v[i]), Len(v))

VAdd(u, v) == Tab(LAMBDA i : RAdd(u[i], v[i]), Len(u))

VMul(u, v) == Tab(LAMBDA i : RMul(u[i], v[i]), Len(u))

\* v[-1] = 0.
EdgeZero(v) == [v EXCEPT ![Len(v)] = Zero]

RECURSIVE RSum(_, _)
RSum(v, i) == IF i = 0 THEN Zero ELSE RAdd(RSum(v, i - 1), v[i])

\* numpy.linspace(0., 1., n)
linspace(n) == Tab(LAMBDA i : Q(i - 1, n - 1), n)


(***************************************************************************)
(* Optional values: None is the empty sequence, Some(x) is <<x>>.          *)
(***************************************************************************)
None == <<>>

Some(x) == <<x>>

IsNone(o) == o = <<>>

(***************************************************************************)
(* Numerical operators.                                                    *)
(***************************************************************************)
\* integer stand-in for 2*numpy.pi (a positive constant factor)
TwoPi == 6

\* integer stand-in for the vacuum permeability mu0 (a positive constant)
mu0 == 2

\* spline integral of y over the increasing abscissae a, as the trapezoid
\* rule: like CubicSpline(...).integrate it is linear in y
Integrate(a, y) ==
    LET term(i) == RMul(RSub(a[i + 1], a[i]), RMul(Q(1, 2), RAdd(y[i], y[i + 1])))
    IN  RSum(Tab(LAMBDA i : term(i), (Len(a) - 1)), Len(a) - 1)

a_slip_of_cross_section_surf_int(profile, a_avgs) ==
    RMul(R(TwoPi),
         Integrate(a_avgs, Tab(LAMBDA i : IF RLt(RMul(a_avgs[i], profile[i]), Zero)
                                          THEN RNeg(RMul(a_avgs[i], profile[i]))
                                          ELSE RMul(a_avgs[i], profile[i]),
                               Len(profile))))

cross_section_surf_int(profile, a_avgs) ==
    RMul(R(TwoPi), Integrate(a_avgs, VMul(a_avgs, profile)))

\* returns (jtor_total*rescaling_factor, rescaling_factor)
a_slip_of_rescale_Jtor(jtor_total, Ip_target, a_avgs) ==
    With(RDiv(cross_section_surf_int(jtor_total, a_avgs), Ip_target),
         LAMBDA rescaling_factor :
        [jtor |-> VScale(rescaling_factor, jtor_total), fac |-> rescaling_factor])

rescale_Jtor(jtor_total, Ip_target, a_avgs) ==
    With(RDiv(Ip_target, cross_section_surf_int(jtor_total, a_avgs)),
         LAMBDA rescaling_factor :
        [jtor |-> VScale(rescaling_factor, jtor_total), fac |-> rescaling_factor])

ffprime_from_jtor_pprime(jtor, pprime, R_avg, one_over_R_avg) ==
    Tab(LAMBDA i : RMul(RSub(jtor[i], RMul(R_avg[i], RNeg(pprime[i]))),
             RDiv(R(mu0), one_over_R_avg[i])), Len(jtor))

a_slip_of_jtor_from_ffprime_pprime(ffprime, pprime, R_avg, one_over_R_avg) ==
    Tab(LAMBDA i : RAdd(RMul(R_avg[i], pprime[i]),
             RDiv(RMul(one_over_R_avg[i], ffprime[i]), R(mu0))), Len(ffprime))

jtor_from_ffprime_pprime(ffprime, pprime, R_avg, one_over_R_avg) ==
    Tab(LAMBDA i : RAdd(RMul(R_avg[i], RNeg(pprime[i])),
             RDiv(RMul(one_over_R_avg[i], ffprime[i]), R(mu0))), Len(ffprime))

\* derivative of the pressure spline at the samples, as numpy.gradient's
\* differences (one-sided at the ends), times one_on_tot_pol_flux
get_pprime(psi_norm, pressure, one_on_tot_pol_flux) ==
    LET N == Len(psi_norm)
        lo(i) == IF i = 1 THEN 1 ELSE i - 1
        hi(i) == IF i = N THEN N ELSE i + 1
    IN  Tab(LAMBDA i : RMul(RDiv(RSub(pressure[hi(i)], pressure[lo(i)]),
                      RSub(psi_norm[hi(i)], psi_norm[lo(i)])),
                 one_on_tot_pol_flux), N)

\* value at x in [0,1] of the interpolant through the samples of v on
\* linspace(0,1,Len(v)) (piecewise linear in place of the cubic spline)
Interp(v, x) ==
    LET N == Len(v)
        t == RMul(x, R(N - 1))
        k == IF t.n \div t.d >= N - 1 THEN N - 2 ELSE t.n \div t.d
        frac == RSub(t, R(k))
    IN  RAdd(RMul(RSub(One, frac), v[k + 1]), RMul(frac, v[k + 2]))

\* resampling size of make_smooth (npts=450 in the drivers' calls), scaled
SmoothNpts == 4

Max(a, b) == IF a > b THEN a ELSE b

AllFinite(v) == \A i \in 1..Len(v) : IsFinite(v[i])

\* make_smooth(psi_norm, input_vec, npts=450), endzero=True: CubicSpline
\* rejects non-finite samples (ValueError); the result is resampled on
\* linspace(0,1,max(npts,origsize)) and ends on the (1.0, 0.0) anchor
make_smooth(psi_norm, input_vec, npts) ==
    LET M == Max(npts, Len(psi_norm))
        new_psi == linspace(M)
    IN  IF ~AllFinite(input_vec)
        THEN [raised |-> TRUE, x |-> <<>>, y |-> <<>>]
        ELSE [raised |-> FALSE,
              x |-> new_psi,
              y |-> Tab(LAMBDA i : IF i = M THEN Zero ELSE Interp(input_vec, new_psi[i]), M)]

\* numpy.nan_to_num: nan -> 0, +-inf -> +-largest float
FloatMax == 1000000

nan_to_num(v) ==
    Tab(LAMBDA i : IF IsNaN(v[i]) THEN Zero
        ELSE IF IsInf(v[i]) THEN R(v[i].n * FloatMax)
        ELSE v[i], Len(v))

(***************************************************************************)
(* solve_for_psi_crossing(psi, qvals, qmin).  qvals and qmin are integers  *)
(* in hundredths; psi and the roots are rationals.  The roots of the       *)
(* cubic spline through qvals - qmin come from scipy: they enter as the    *)
(* argument roots, any increasing list the samples allow (SplineRoots).    *)
(***************************************************************************)
\* numpy.argmin: the first index of the smallest value
argmin(v) == CHOOSE i \in 1..Len(v) :
                /\ \A j \in 1..Len(v) : v[i] <= v[j]
                /\ \A j \in 1..(i - 1) : v[j] > v[i]

MinOf(v) == v[argmin(v)]

\* 0.3, the largest spread of roots still taken as one shallow dip
a_slip_of_RootSpread == Q(2, 10)

RootSpread == Q(3, 10)

\* 0.1 in hundredths: depth below qmin that makes two crossings genuine
DipDepth == 10

NotFound == [raised |-> FALSE, found |-> FALSE, psicross |-> None, i_near |-> None]

AssertionError == [raised |-> TRUE, found |-> FALSE, psicross |-> None, i_near |-> None]

Found(psicross, qcross_arg) ==
    [raised |-> FALSE, found |-> TRUE, psicross |-> Some(psicross), i_near |-> Some(qcross_arg)]

\* if qcross[qmin_arg]>0: q already above qmin
a_slip_of_AlreadyAbove(qcross, qmin_arg) == qcross[qmin_arg] < 0

AlreadyAbove(qcross, qmin_arg) == qcross[qmin_arg] > 0

\* elif qcross[0] > qmin: the "hollow" test of the code
IsHollow(qcross, qmin) == qcross[1] > qmin

\* elif qcross[qcross_arg]==0: the nearest sample lies on the target
a_slip_of_ExactHit(qcross, qcross_arg) == qcross[qcross_arg] < 0

ExactHit(qcross, qcross_arg) == qcross[qcross_arg] = 0

\* roots= [x for x in roots if x > 0.0 and x < 1.0]
InnerRoots(splineroots) == SelectSeq(splineroots, LAMBDA x : RLt(Zero, x) /\ RLt(x, One))

\* the call gets past the three early tests and asks the spline for roots
ReachesRoots(qvals, qmin) ==
    LET qcross == Tab(LAMBDA i : qvals[i] - qmin, Len(qvals))
    IN  /\ ~AlreadyAbove(qcross, argmin(qcross))
        /\ ~IsHollow(qcross, qmin)
        /\ \A i \in 1..Len(qcross) : qcross[i] # 0

solve_for_psi_crossing(psi, qvals, qmin, splineroots) ==
    LET qcross == Tab(LAMBDA i : qvals[i] - qmin, Len(qvals))
        qmin_arg == argmin(qcross)
        qcross_arg == argmin(Tab(LAMBDA i : Abs(qcross[i]), Len(qcross)))
        roots == InnerRoots(splineroots)
    IN  IF AlreadyAbove(qcross, qmin_arg) THEN NotFound
        ELSE IF IsHollow(qcross, qmin) THEN NotFound
        ELSE IF ExactHit(qcross, qcross_arg) THEN Found(psi[qcross_arg], qcross_arg)
        ELSE IF Len(roots) > 0
             THEN IF Len(roots) > 3 THEN NotFound
                  ELSE IF Len(roots) = 1 THEN Found(roots[1], qcross_arg)
                  ELSE IF Len(roots) = 2
                       THEN IF ~(qcross[Len(qcross)] > 0) THEN AssertionError
                            ELSE IF RLt(RootSpread, RSub(roots[2], roots[1]))
                                    /\ MinOf(qvals) < qmin - DipDepth
                                 THEN NotFound
                                 ELSE Found(roots[2], qcross_arg)
                  ELSE IF RLt(RootSpread, RSub(roots[3], roots[1]))
                       THEN NotFound
                       ELSE Found(roots[3], qcross_arg)
             ELSE NotFound

\* most roots the spline is allowed inside one grid cell
MaxRootsPerCell == 3

\* roots per grid cell the samples allow: an odd number where the deviation
\* changes sign across the cell, an even number where it does not
CellCounts(qvals, qmin) ==
    { c \in [1..(Len(qvals) - 1) -> 0..MaxRootsPerCell] :
        \A i \in 1..(Len(qvals) - 1) :
            LET d1 == qvals[i] - qmin
                d2 == qvals[i + 1] - qmin
            IN  IF d1 = 0 \/ d2 = 0 THEN c[i] = 0
                ELSE (c[i] % 2 = 1) <=> (Sgn(d1) # Sgn(d2)) }

\* the c[i] roots of cell i, evenly spread strictly inside it, cell after cell
RECURSIVE RootsFrom(_, _, _)
RootsFrom(psi, c, i) ==
    IF i > Len(c) THEN <<>>
    ELSE Tab(LAMBDA k : RAdd(psi[i], RMul(Q(k, c[i] + 1), RSub(psi[i + 1], psi[i]))), c[i])
         \o RootsFrom(psi, c, i + 1)

\* every root list CubicSpline(psi, qvals - qmin).roots() may return
SplineRoots(psi, qvals, qmin) ==
    { RootsFrom(psi, c, 1) : c \in CellCounts(qvals, qmin) }

(***************************************************************************)
(* profile_iteration: the ProfileIterationStep nested in both drivers.     *)
(*   Ip_target: self._Ip_target.value                                      *)
(*   eq: what the equilibrium solver holds, as read by get_profiles,       *)
(*       sauter_fc and get_q:  qvals (hundredths), cells (the spline roots *)
(*       of qvals - 1.02), fc, a = r_avgs[2], R_avg, one_over_R_avg, f,    *)
(*       span = psi_bounds[1] - psi_bounds[0], bs = the closure's <B.j_BS> *)
(*       on this equilibrium                                               *)
(*   arg: the keyword arguments of the call                                *)
(***************************************************************************)
\* self._Ip_target.value = -1.E99: the disabled value set_targets writes
IpSentinel == -999999

\* self._Ip_target=c_double(-1.0): the value __init__ and reset write
IpInitial == -1

\* the q = 1 target 1.02 of the dynamo step, in hundredths
QTarget == 102

\* q_offset > 0.05, in hundredths: upper edge of the pre-step band
QBand == 5

\* rounding of the redistribution's intermediate results: to tenths, away
\* from zero, so that no sign is lost
Coarse(x) ==
    IF ~IsFinite(x) THEN x
    ELSE IF x.n >= 0 THEN Q(-((-(10 * x.n)) \div x.d), 10)
    ELSE Q((10 * x.n) \div x.d, 10)

\* numpy.sqrt on [0,1], rounded down to hundredths
Sqrt(x) == LET r == CHOOSE r \in 0..100 :
                        /\ r * r * x.d <= 10000 * x.n
                        /\ (r + 1) * (r + 1) * x.d > 10000 * x.n
           IN  Q(r, 100)

\* gaussian(x, mu, sig): a bell of height 1/sig at mu that falls off with
\* |x - mu| (rational in place of numpy.exp)
gaussian(x, mu, sig) ==
    Coarse(RDiv(sig, RAdd(RMul(sig, sig), RMul(RSub(x, mu), RSub(x, mu)))))

Raised(what) ==
    [raised |-> what, pp_prof |-> <<>>, ffp_prof |-> <<>>, j_BS |-> None,
     flux_surf_avg_of_B_timesj_BS |-> None,
     inductive_jtor |-> <<>>, jtor_total |-> <<>>, flag_end |-> FALSE,
     q_1_psi_location |-> None, q0 |-> 0, ftr_applied |-> FALSE,
     ip_rescaled |-> FALSE, rescling_fac |-> None, before_rescale |-> <<>>,
     redistributed |-> FALSE, found |-> FALSE, searched |-> FALSE,
     before_redistribution |-> <<>>,
     input |-> <<>>, a_avgs |-> <<>>, include_jBS |-> FALSE, geometry |-> <<>>,
     amp |-> <<>>, avg |-> None, clamped |-> <<>>, i_near |-> None,
     iteration |-> -1, input_after |-> <<>>]

\* self._Ip_target.value-total_BS_current: the total the inductive profile
\* is rescaled to
a_slip_of_InductiveGoal(Ip_target, total_BS_current) == Ip_target

InductiveGoal(Ip_target, total_BS_current) == RSub(Ip_target, total_BS_current)

\* if self._Ip_target.value != -1.E99 and not init_Lmode
IpRescaleWanted(Ip_target, init_Lmode) == Ip_target # R(IpSentinel) /\ ~init_Lmode

\* if q_offset<0.0 or q_offset>0.05
a_slip_of_NeedsRedistribution(q_offset) == q_offset < 0 \/ q_offset >= QBand

NeedsRedistribution(q_offset) == q_offset < 0 \/ q_offset > QBand

\* q_offset as the amplitudes use it: if q_offset>0: q_offset=q_offset*0.8
ScaledOffset(q_offset0) ==
    IF q_offset0 > 0 THEN RMul(Q(q_offset0, 100), Q(8, 10)) ELSE Q(q_offset0, 100)

\* avg_norm_current_density_at_that_rho
AvgDensity(jtor_total_temp, rho, q1) ==
    With(RMin(RAdd(Sqrt(q1), Q(15, 100)), Q(8, 10)), LAMBDA rad :
        Coarse(RDiv(cross_section_surf_int(jtor_total_temp, rho),
                    RMul(Q(TwoPi, 2), RMul(rad, rad)))))

\* subtract_factor, add_factor and add_factor2, with add_factorV =
\* 0.5*[0.2,0.6,1.0] and qoff_min = 0.03
a_slip_of_Amplitudes(q_offset0, q1, iteration, avg) ==
    With(RMul(RAdd(RNeg(ScaledOffset(q_offset0)), Q(3, 100)), avg), LAMBDA drive :
        [subtract_factor |-> Coarse(RNeg(RMul(RMul(Q(5, 10), q1), drive))),
         add_factor |-> Coarse(RMul(Q(1, 10), drive)),
         add_factor2 |-> Coarse(RMul(RMul(Q(3, 10), Q(5, 30)), drive))])

Amplitudes(q_offset0, q1, iteration, avg) ==
    With(RMul(RAdd(RNeg(ScaledOffset(q_offset0)), Q(3, 100)), avg), LAMBDA drive :
        [subtract_factor |-> Coarse(RMul(RMul(Q(5, 10), q1), drive)),
         add_factor |-> Coarse(RMul(Q(1, 10), drive)),
         add_factor2 |-> Coarse(RMul(RMul(Q(3, 10), Q(5 + iteration, 30)), drive))])

\* the three in-place updates of inductive_jtor[i] in the redistribution loop
Perturbed(x, rho_i, q1, amp) ==
    Coarse(RAdd(RAdd(RSub(x, RMul(amp.subtract_factor,
                                   gaussian(rho_i, Zero,
                                            RAdd(RMin(q1, Q(15, 100)), Q(1, 10))))),
                     RMul(amp.add_factor,
                          gaussian(rho_i,
                                   RAdd(Sqrt(q1),
                                        RAdd(Q(8, 100), RMul(Q(4, 10), RMin(q1, Q(2, 10))))),
                                   RAdd(RMin(q1, Q(2, 10)), Q(1, 10))))),
                RMul(amp.add_factor2, gaussian(rho_i, Q(1, 2), Q(3, 10)))))

\* if found: if i<i_near and inductive_jtor[i]<inductive_jtor[i_near]: element
\* i is clamped before element i_near has been perturbed
Clamped(cr, ind, i, p_i) ==
    IF cr.found /\ i < cr.i_near[1] /\ RLt(p_i, ind[cr.i_near[1]])
    THEN ind[cr.i_near[1]] ELSE p_i

\* the damping towards the quartic spline's value at its inboard local
\* maximum, taken at psi = 0.1, with damping_fac = 0.5
Damped(bump, psi, v) ==
    With(Interp(v, Q(1, 10)), LAMBDA level :
        Tab(LAMBDA i : IF bump /\ RLt(psi[i], Q(1, 10))
                       THEN RSub(v[i], RMul(Q(1, 2), RSub(v[i], level)))
                       ELSE v[i],
            Len(v)))

\* the perturbation, clamp and damping passes once the location q1 is known
Reshape(eq, arg, psi, ind, j_BS, cr, q1) ==
    The({The({The({The({
        [raised |-> "none", ind |-> Damped(arg.bump, psi, clamped), loc |-> Some(q1),
         found |-> cr.found,
         amp |-> <<amp.subtract_factor, amp.add_factor, amp.add_factor2>>,
         avg |-> Some(avg), clamped |-> clamped, i_near |-> cr.i_near]
        : clamped \in {Tab(LAMBDA i : The({Clamped(cr, ind, i, p_i)
                                           : p_i \in {Perturbed(ind[i], rho[i], q1, amp)}}),
                           Len(ind))}})
        : amp \in {Amplitudes(eq.qvals[1] - QTarget, q1, arg.iteration, avg)}})
        : avg \in {AvgDensity(VAdd(ind, j_BS), rho, q1)}})
        : rho \in {Tab(LAMBDA i : Sqrt(psi[i]), Len(psi))}})

\* the #DYNAMO block of profile_iteration up to the damping, on the
\* inductive profile ind; gives the new profile, the crossing location and
\* how the block ended
Redistribute(eq, arg, psi, ind, j_BS) ==
    The({
        IF cr.raised THEN [raised |-> "AssertionError"]
        ELSE IF ~cr.found /\ eq.qvals[1] - QTarget < 0 THEN [raised |-> "TypeError"]
        ELSE IF ~cr.found /\ IsNone(arg.q_1_psi_location) THEN [raised |-> "TypeError"]
        ELSE The({Reshape(eq, arg, psi, ind, j_BS, cr, q1)
                  : q1 \in {IF cr.found THEN cr.psicross[1]
                            ELSE arg.q_1_psi_location[1]}})
        : cr \in {solve_for_psi_crossing(psi, eq.qvals, QTarget,
                                         RootsFrom(psi, eq.cells, 1))}})

\* j_BS = flux_surf_avg_of_B_timesj_BS*(R_avg / f); j_BS *= jBS_scale; j_BS[-1] = 0.
Bootstrap(eq, jBS_scale) ==
    EdgeZero(VScale(jBS_scale,
                    Tab(LAMBDA i : RMul(eq.bs[i], RDiv(eq.R_avg[i], eq.f[i])), Len(eq.bs))))

\* if rescale_ind_Jtor_by_ftr: ... ; inductive_jtor[-1] = 0.
Reshaped(arg, eq, inductive_jtor0) ==
    EdgeZero(IF arg.rescale_ind_Jtor_by_ftr
             THEN rescale_Jtor(VMul(inductive_jtor0, eq.fc),
                               cross_section_surf_int(inductive_jtor0, eq.a),
                               eq.a).jtor
             ELSE inductive_jtor0)

\* the tail of profile_iteration: ffprime, smoothing, normalisation, return
Finish(variant, arg, eq, psi_norm, pprime, r) ==
    The({The({The({The({
        IF sf.raised \/ sp.raised
        THEN [Raised("ValueError") EXCEPT !.searched = r.dyn, !.q0 = eq.qvals[1],
                                          !.input = r.input,
                                          !.include_jBS = arg.include_jBS,
                                          !.iteration = arg.iteration,
                                          !.input_after = r.input_after]
        ELSE
        [raised |-> "none",
         pp_prof |-> [x |-> sp.x,
                      y |-> Tab(LAMBDA i : RDiv(sp.y[i], sp.y[1]), Len(sp.y))],
         ffp_prof |-> [x |-> sp.x,
                       y |-> Tab(LAMBDA i : RDiv(sf.y[i], sf.y[1]), Len(sf.y))],
         j_BS |-> IF arg.include_jBS THEN Some(r.j_BS) ELSE None,
         flux_surf_avg_of_B_timesj_BS |-> IF arg.include_jBS THEN Some(eq.bs) ELSE None,
         inductive_jtor |-> r.ind,
         jtor_total |-> jtor_total,
         flag_end |-> (variant = "dynamo" /\ arg.include_jBS /\ ~r.dyn),
         q_1_psi_location |->
             IF variant = "dynamo" /\ arg.include_jBS
             THEN (IF r.dyn THEN r.loc ELSE None)
             ELSE arg.q_1_psi_location,
         q0 |-> eq.qvals[1],
         ftr_applied |-> arg.rescale_ind_Jtor_by_ftr,
         ip_rescaled |-> r.wanted,
         rescling_fac |-> r.fac,
         before_rescale |-> r.before_rescale,
         redistributed |-> r.dyn,
         found |-> r.found,
         searched |-> r.dyn,
         before_redistribution |-> r.before_redistribution,
         input |-> r.input,
         a_avgs |-> eq.a,
         include_jBS |-> arg.include_jBS,
         geometry |-> eq,
         amp |-> r.amp, avg |-> r.avg, clamped |-> r.clamped, i_near |-> r.i_near,
         iteration |-> arg.iteration,
         input_after |-> r.input_after]
        : sp \in {IF arg.smooth_inputs THEN make_smooth(psi_norm, pprime, SmoothNpts)
                  ELSE [raised |-> FALSE, x |-> psi_norm, y |-> pprime]}})
        : sf \in {IF arg.smooth_inputs THEN make_smooth(psi_norm, ffprime0, SmoothNpts)
                  ELSE [raised |-> FALSE, x |-> psi_norm, y |-> ffprime0]}})
        : ffprime0 \in {ffprime_from_jtor_pprime(jtor_total, pprime, eq.R_avg,
                                                 eq.one_over_R_avg)}})
        : jtor_total \in {IF arg.include_jBS THEN VAdd(r.ind, r.j_BS) ELSE r.ind}})

\* the currents of profile_iteration once the edge-zeroed inductive profile
\* ind2 and j_BS are known: the Ip rescale, the redistribution, the rescale
\* after it
Currents(variant, Ip_target, eq, arg, inductive_jtor0, psi, ind2, j_BS) ==
    The({The({The({The({The({
        IF red.raised # "none"
        THEN [raised |-> red.raised]
        ELSE
        The({
            [raised |-> "none", ind |-> resc2.jtor, j_BS |-> j_BS, dyn |-> dyn,
             wanted |-> wanted, loc |-> red.loc, found |-> red.found,
             fac |-> IF wanted THEN Some(resc2.fac) ELSE None,
             before_rescale |-> IF dyn THEN red.ind ELSE ind2,
             before_redistribution |-> resc1.jtor,
             input |-> inductive_jtor0,
             amp |-> red.amp, avg |-> red.avg, clamped |-> red.clamped,
             i_near |-> red.i_near,
             \* the array object the caller passed: inductive_jtor*fc and
             \* rescale_Jtor make new arrays, inductive_jtor[-1] = 0. and the
             \* redistribution loops write into the array they are given
             input_after |-> IF arg.rescale_ind_Jtor_by_ftr THEN inductive_jtor0
                             ELSE IF dyn /\ ~wanted THEN red.ind
                             ELSE ind2]
            : resc2 \in {IF dyn /\ wanted THEN rescale_Jtor(red.ind, goal, eq.a)
                         ELSE [jtor |-> red.ind, fac |-> resc1.fac]}})
        : red \in {IF dyn THEN The({Redistribute(eq, arg, psi, before, j_BS)
                                    : before \in {resc1.jtor}})
                   ELSE [raised |-> "none", ind |-> resc1.jtor, loc |-> None,
                         found |-> FALSE, amp |-> <<>>, avg |-> None,
                         clamped |-> <<>>, i_near |-> None]}})
        : dyn \in {variant = "dynamo" /\ arg.include_jBS
                   /\ NeedsRedistribution(eq.qvals[1] - QTarget)}})
        : resc1 \in {IF wanted THEN rescale_Jtor(ind2, goal, eq.a)
                     ELSE [jtor |-> ind2, fac |-> One]}})
        : goal \in {InductiveGoal(Ip_target, cross_section_surf_int(j_BS, eq.a))}})
        : wanted \in {arg.include_jBS /\ IpRescaleWanted(Ip_target, arg.init_Lmode)}})

\* the spline of get_pprime takes psi_norm and pressure of one length
LengthsAgree(pressure, inductive_jtor0) == Len(pressure) = Len(inductive_jtor0)

profile_iteration(variant, Ip_target, eq, pressure, inductive_jtor0, arg) ==
    IF ~LengthsAgree(pressure, inductive_jtor0) THEN Raised("ValueError") ELSE
    The({The({The({
        IF r.raised # "none"
        THEN [Raised(r.raised) EXCEPT !.searched = TRUE, !.q0 = eq.qvals[1],
                                      !.input = inductive_jtor0, !.include_jBS = TRUE,
                                      !.iteration = arg.iteration,
                                      !.input_after =
                                          IF arg.rescale_ind_Jtor_by_ftr THEN inductive_jtor0
                                          ELSE EdgeZero(inductive_jtor0)]
        ELSE Finish(variant, arg, eq, psi_norm, pprime, r)
        : r \in {The({Currents(variant, Ip_target, eq, arg, inductive_jtor0, psi_norm,
                               ind2, j_BS)
                      : ind2 \in {Reshaped(arg, eq, inductive_jtor0)},
                        j_BS \in {Bootstrap(eq, arg.jBS_scale)}})}})
        : pprime \in {get_pprime(psi_norm, pressure, RDiv(One, eq.span))}})
        : psi_norm \in {linspace(Len(inductive_jtor0))}})

(***************************************************************************)
(* State.                                                                  *)
(***************************************************************************)
VARIABLES
    Ip_target,          \* self._Ip_target.value
    pax_target,         \* self._pax_target.value
    pc,                 \* "idle", "lmode", "iter", "returned", "raised",
                        \* "cross", "crossed"
    drv,                \* the arguments of the running driver call
    n,                  \* iteration counter of the ITERATING loop
    flag,               \* last solve code
    rescale_ind_Jtor_by_ftr,
    flag_end,           \* dynamo: post-solve q0 inside the band
    q_1_psi_location,   \* dynamo: last crossing location handed on
    q0_vals,            \* dynamo: q0 history
    q1_psi_surf,        \* dynamo: crossing location history
    inductive_jtor,     \* the drivers' local inductive_jtor
    eq,                 \* the equilibrium the solver holds
    step,               \* what the last profile_iteration call returned
    sent,               \* the profiles of the last set_profiles call
    ret,                \* the returned tuple, None until the driver returns
    exc,                \* the exception that ended the call, "none" if none
    calls,              \* the calls made into the equilibrium solver, in order
    codes,              \* the codes the solve calls returned, in order
    xin,                \* arguments of a direct solve_for_psi_crossing call
    xout                \* what that call returned

vars == <<Ip_target, pax_target, pc, drv, n, flag, rescale_ind_Jtor_by_ftr, flag_end,
          q_1_psi_location, q0_vals, q1_psi_surf, inductive_jtor, eq, step, sent,
          ret, exc, calls, codes, xin, xout>>

target_vars == <<Ip_target, pax_target>>

loop_vars == <<n, flag, rescale_ind_Jtor_by_ftr, flag_end, q_1_psi_location,
               q0_vals, q1_psi_surf, inductive_jtor, step, sent, codes>>

cross_vars == <<xin, xout>>

(***************************************************************************)
(* Inputs.                                                                 *)
(***************************************************************************)
\* codes tokamaker_solve hands back: 0 on success, negative on failure
SolveCodes == {-3, 0}

\* a profile of n_psi samples that falls linearly from top at the axis
Ramp(top, step_) == Tab(LAMBDA i : R(top - step_ * (i - 1)), NPsi)

Const(c) == Tab(LAMBDA i : c, NPsi)

\* q profiles (hundredths) the solver may hold after a solve
QProfiles ==
    { Tab(LAMBDA i : 90 + 60 * (i - 1), NPsi),       \* q0 < 1.02, one crossing
      Tab(LAMBDA i : 105 + 50 * (i - 1), NPsi),      \* q0 inside the band
      Tab(LAMBDA i : 102 + 50 * (i - 1), NPsi),      \* q0 = 1.02
      Tab(LAMBDA i : 107 + 50 * (i - 1), NPsi),      \* q0 = 1.07
      Tab(LAMBDA i : 150 + 50 * (i - 1), NPsi) }     \* above everywhere

\* further q profiles for single steps
QProfilesWide ==
    QProfiles \cup
    { Tab(LAMBDA i : 90, NPsi),                              \* below everywhere
      Tab(LAMBDA i : IF i = 2 THEN 95 ELSE 150, NPsi),       \* q0 above, shallow dip
      Tab(LAMBDA i : IF i = 1 THEN 90 ELSE IF i = 2 THEN 100 ELSE 150, NPsi) }
                                  \* q0 below, the sample nearest the target off axis

\* the spline has the fewest roots the samples allow
MinimalCells(qvals) ==
    Tab(LAMBDA i : IF Sgn(qvals[i] - QTarget) * Sgn(qvals[i + 1] - QTarget) < 0
                   THEN 1 ELSE 0,
        Len(qvals) - 1)

Geometry(qvals, cells, fc, bs) ==
    [qvals |-> qvals, cells |-> cells, fc |-> fc, bs |-> bs,
     a |-> Tab(LAMBDA i : R(i - 1), NPsi),
     R_avg |-> Const(R(2)), one_over_R_avg |-> Const(Q(1, 2)),
     f |-> Const(One), span |-> One]

Equilibria == { Geometry(q, MinimalCells(q), Const(Q(1, 2)), Const(One)) : q \in QProfiles }

EquilibriaWide ==
    { Geometry(q, MinimalCells(q), fc, Const(One)) :
        q \in QProfilesWide, fc \in {Const(Q(1, 2)), Tab(LAMBDA i : Q(1, i), NPsi)} }

\* values of the Ip argument of set_targets
IpValues == {R(-5), R(12)}

\* pressure of kinetic profiles one sample shorter than inductive_jtor, and
\* of zero-length kinetic profiles
Malformed == {Tab(LAMBDA i : R(NPsi + 1 - i), NPsi - 1), <<>>}

DriverArgs ==
    [variant : {"plain", "dynamo"},
     max_iterations : -1..MaxIter,
     initialize_eq : BOOLEAN,
     rescale_ind_Jtor_by_ftr : BOOLEAN,
     smooth_inputs : {TRUE},
     jBS_scale : {One},
     pressure : {Ramp(NPsi + 1, 1)} \cup Malformed,
     init_pressure : {Ramp(NPsi, 1)},
     inductive_jtor : {Const(One)}]

\* arguments of the single steps: flat and falling pressure, inductive
\* profiles with and without a zero edge sample and with zero integral
StepArgs ==
    [variant : {"plain", "dynamo"},
     max_iterations : {0},
     initialize_eq : BOOLEAN,
     rescale_ind_Jtor_by_ftr : BOOLEAN,
     smooth_inputs : BOOLEAN,
     jBS_scale : {One},
     pressure : {Ramp(NPsi + 1, 1), Const(One)},
     init_pressure : {Ramp(NPsi, 1)},
     inductive_jtor : {Const(One), Ramp(NPsi - 1, 1), Const(Zero)}]

\* q samples and targets (hundredths) of the direct crossing calls
CrossQ == {90, 102, 110, 250}

CrossTargets == {102, 110}

NoStep == Raised("none")

NoProfiles == [pp_prof |-> <<>>, ffp_prof |-> <<>>]

NoDriver ==
    [variant |-> "none", max_iterations |-> 0, initialize_eq |-> FALSE,
     rescale_ind_Jtor_by_ftr |-> FALSE, smooth_inputs |-> FALSE, jBS_scale |-> One,
     pressure |-> <<>>, init_pressure |-> <<>>, inductive_jtor |-> <<>>]

NoCross == [psi |-> <<>>, qvals |-> <<>>, qmin |-> 0, roots |-> <<>>]

(***************************************************************************)
(* TokaMaker.__init__ / reset / set_targets.                               *)
(***************************************************************************)
Init ==
    /\ Ip_target = R(IpInitial)
    /\ pax_target = R(-1)
    /\ pc = "idle"
    /\ drv = NoDriver
    /\ n = 0
    /\ flag = 0
    /\ rescale_ind_Jtor_by_ftr = FALSE
    /\ flag_end = FALSE
    /\ q_1_psi_location = None
    /\ q0_vals = <<>>
    /\ q1_psi_surf = <<>>
    /\ inductive_jtor = <<>>
    /\ eq \in Equilibria
    /\ step = NoStep
    /\ sent = NoProfiles
    /\ ret = None
    /\ exc = "none"
    /\ calls = <<>>
    /\ codes = <<>>
    /\ xin = NoCross
    /\ xout = NotFound

\* set_targets(Ip=..., pax=..., retain_previous=...): the new Ip and pax targets
a_slip_of_set_targets_Ip(old, Ip, retain_previous) ==
    IF ~IsNone(Ip) THEN Ip[1] ELSE R(IpSentinel)

set_targets_Ip(old, Ip, retain_previous) ==
    IF ~IsNone(Ip) THEN Ip[1]
    ELSE IF ~retain_previous THEN R(IpSentinel) ELSE old

set_targets_pax(old, pax, retain_previous) ==
    IF ~IsNone(pax) THEN pax[1]
    ELSE IF ~retain_previous THEN R(-1) ELSE old

\* the user calls set_targets before running a driver
SetTargets ==
    /\ pc = "idle"
    /\ \E Ip \in {None} \cup {Some(v) : v \in IpValues}, retain_previous \in BOOLEAN :
        /\ Ip_target' = set_targets_Ip(Ip_target, Ip, retain_previous)
        /\ pax_target' = set_targets_pax(pax_target, None, retain_previous)
    /\ calls' = <<>>
    /\ UNCHANGED <<pc, drv, eq, ret, exc>>
    /\ UNCHANGED loop_vars
    /\ UNCHANGED cross_vars

\* the user calls reset
Reset ==
    /\ pc = "idle"
    /\ Ip_target' = R(IpInitial)
    /\ pax_target' = R(-1)
    /\ calls' = <<>>
    /\ UNCHANGED <<pc, drv, eq, ret, exc>>
    /\ UNCHANGED loop_vars
    /\ UNCHANGED cross_vars

(***************************************************************************)
(* The drivers: solve_with_bootstrap ("plain") and                         *)
(* basic_dynamo_w_bootstrap ("dynamo").                                    *)
(***************************************************************************)
\* upper edge 1.07 of the post-solve band, in hundredths
QUpper == 107

\* if qvals[0]>1.02 and qvals[0]<1.07: flag_end=True
BandReached(q0) == q0 > QTarget /\ q0 < QUpper

\* if initialize_eq and flag<0: return ...
a_slip_of_InitFailed(initialize_eq, flag_) == initialize_eq /\ flag_ < -3

InitFailed(initialize_eq, flag_) == initialize_eq /\ flag_ < 0

\* if flag<0: return ...
a_slip_of_SolveFailed(flag_) == flag_ < -3

SolveFailed(flag_) == flag_ < 0

\* if (n > max_iterations) and (flag >= 0): break
a_slip_of_Exhausted(n_, max_iterations, flag_) == n_ >= max_iterations /\ flag_ >= 0

Exhausted(n_, max_iterations, flag_) == n_ > max_iterations /\ flag_ >= 0

\* elif n > max_iterations+1: raise TypeError(...)
a_slip_of_DidNotConverge(n_, max_iterations) == n_ > max_iterations - 1

DidNotConverge(n_, max_iterations) == n_ > max_iterations + 1

\* while n <= max_iterations
LoopGuard(n_, max_iterations) == n_ <= max_iterations

\* pp_prof['y'][-1] = 0. ; pp_prof['y'] = numpy.nan_to_num(pp_prof['y'])
a_slip_of_Prepared(prof) == [x |-> prof.x, y |-> nan_to_num(prof.y)]

Prepared(prof) == [x |-> prof.x, y |-> nan_to_num(EdgeZero(prof.y))]

\* the geometry reads at the head of profile_iteration
Reads == <<"get_profiles", "sauter_fc", "get_q">>

\* the calls of one round in the order the drivers make them: the reads of
\* profile_iteration, self.set_profiles(...), flag = self.solve(), and in
\* the dynamo loop self.get_q(npsi=len(j_BS))
a_slip_of_RoundCalls(with_get_q) ==
    Reads \o <<"solve", "set_profiles">>
          \o (IF with_get_q THEN <<"get_q">> ELSE <<>>)

RoundCalls(with_get_q) ==
    Reads \o <<"set_profiles", "solve">>
          \o (IF with_get_q THEN <<"get_q">> ELSE <<>>)

\* q0_vals.append(q0); q1_psi_surf.append(q_1_psi_location) after a
\* profile_iteration of the dynamo driver has returned r
a_slip_of_Histories(dynamo, q0s, q1s, r) ==
    [q0_vals |-> IF dynamo THEN Append(q0s, r.q0) ELSE q0s,
     q1_psi_surf |-> IF dynamo /\ ~IsNone(r.q_1_psi_location)
                     THEN Append(q1s, r.q_1_psi_location) ELSE q1s]

Histories(dynamo, q0s, q1s, r) ==
    [q0_vals |-> IF dynamo THEN Append(q0s, r.q0) ELSE q0s,
     q1_psi_surf |-> IF dynamo THEN Append(q1s, r.q_1_psi_location) ELSE q1s]

\* rescale_ind_Jtor_by_ftr=False once a solve has followed a
\* profile_iteration: the value later calls are given
a_slip_of_FtrNextRound(rescale) == rescale

FtrNextRound(rescale) == FALSE

\* the state a driver is in when it reaches its first profile_iteration
\* call: q_1_psi_location=0.2 is the keyword default of the L-mode call and
\* the value the dynamo driver assigns when it skips the L-mode block
FirstLocation(variant, initialize_eq) ==
    IF variant = "dynamo" /\ ~initialize_eq THEN Some(Q(2, 10)) ELSE None

\* the calls into the equilibrium solver made before the import is tried
a_slip_of_CallsBeforeImport == <<"set_targets">>

CallsBeforeImport == <<>>

\* the calls made by the initialisation when no L-mode fit or
\* profile_iteration has failed on the lengths of its inputs
ReadsMade(pressure, inductive_jtor0) ==
    IF LengthsAgree(pressure, inductive_jtor0) THEN Reads ELSE <<>>

\* the try: import ... except: raise ImportError, then the set-up up to the
\* first profile_iteration call; pressure[0] of an empty array fails
Start ==
    /\ pc = "idle"
    /\ \E d \in DriverArgs, import_ok \in BOOLEAN :
        IF ~import_ok
        THEN /\ pc' = "raised"
             /\ exc' = "ImportError"
             /\ drv' = d
             /\ calls' = CallsBeforeImport
             /\ UNCHANGED <<pax_target, n, flag, rescale_ind_Jtor_by_ftr,
                            q_1_psi_location, inductive_jtor>>
        ELSE IF d.pressure = <<>>
        THEN /\ pc' = "raised"
             /\ exc' = "IndexError"
             /\ drv' = d
             /\ calls' = CallsBeforeImport
             /\ UNCHANGED <<pax_target, n, flag, rescale_ind_Jtor_by_ftr,
                            q_1_psi_location, inductive_jtor>>
        ELSE /\ drv' = d
             /\ pax_target' = set_targets_pax(pax_target, Some(d.pressure[1]), TRUE)
             /\ calls' = <<"set_targets">>
             /\ inductive_jtor' = d.inductive_jtor
             /\ rescale_ind_Jtor_by_ftr' = d.rescale_ind_Jtor_by_ftr
             /\ exc' = "none"
             /\ q_1_psi_location' = FirstLocation(d.variant, d.initialize_eq)
             /\ n' = 0
             /\ IF d.initialize_eq
                THEN pc' = "lmode" /\ UNCHANGED flag
                ELSE pc' = "iter" /\ flag' = -1
    /\ Ip_target' = set_targets_Ip(Ip_target, None, TRUE)
    /\ UNCHANGED <<flag_end, q0_vals, q1_psi_surf, eq, step, sent, ret, codes>>
    /\ UNCHANGED cross_vars

ResultKeys ==
    {"j_BS", "jtor_total", "flux_surf_avg_of_B_timesj_BS", "inductive_jtor",
     "pp_prof", "ffp_prof", "pax"}

DynamoKeys == {"q0_vals", "q1_psi_surf", "qvals", "flag_end"}

\* return self, flag, None, None, ... of the failed initialisation
InitFailure(variant, flag_) ==
    Some([flag |-> flag_,
          fields |->
            IF variant = "plain"
            THEN [k \in ResultKeys |-> None]
            ELSE [k \in ResultKeys \cup DynamoKeys |->
                    IF k = "flag_end" THEN Some(FALSE) ELSE None]])

\* return self, flag, j_BS, jtor_total, ... of the ITERATING loop
Result(variant, flag_, r, pp, ffp, q0s, q1s, qvals, pax, fe) ==
    Some([flag |-> flag_,
          fields |->
            LET common == [k \in ResultKeys |->
                             CASE k = "j_BS" -> r.j_BS
                               [] k = "jtor_total" -> Some(r.jtor_total)
                               [] k = "flux_surf_avg_of_B_timesj_BS" ->
                                      r.flux_surf_avg_of_B_timesj_BS
                               [] k = "inductive_jtor" -> Some(r.inductive_jtor)
                               [] k = "pp_prof" -> Some(pp)
                               [] k = "ffp_prof" -> Some(ffp)
                               [] k = "pax" -> Some(pax)]
            IN  IF variant = "plain" THEN common
                ELSE [k \in ResultKeys \cup DynamoKeys |->
                        CASE k = "q0_vals" -> Some(q0s)
                          [] k = "q1_psi_surf" -> Some(q1s)
                          [] k = "qvals" -> Some(qvals)
                          [] k = "flag_end" -> Some(fe)
                          [] OTHER -> common[k]]])

\* the if initialize_eq: block: one profile_iteration without bootstrap on
\* the flattened profiles, set_profiles, solve
LModeInit ==
    /\ pc = "lmode"
    /\ \E r \in {IF ~LengthsAgree(drv.pressure, inductive_jtor)
                  THEN Raised("TypeError")          \* numpy.polyfit(x_trimmed, ne_trimmed, 3)
                  ELSE profile_iteration(drv.variant, Ip_target, eq, drv.init_pressure,
                    inductive_jtor,
                    [init_Lmode |-> TRUE,
                     rescale_ind_Jtor_by_ftr |-> rescale_ind_Jtor_by_ftr,
                     smooth_inputs |-> drv.smooth_inputs, include_jBS |-> FALSE,
                     iteration |-> -1, q_1_psi_location |-> Some(Q(2, 10)),
                     jBS_scale |-> drv.jBS_scale, bump |-> FALSE])} :
           IF r.raised # "none"
           THEN /\ pc' = "raised"
                /\ exc' = r.raised
                /\ calls' = calls \o ReadsMade(drv.pressure, inductive_jtor)
                /\ step' = r
                /\ UNCHANGED <<n, flag, rescale_ind_Jtor_by_ftr, flag_end, q_1_psi_location,
                               q0_vals, q1_psi_surf, inductive_jtor, eq, sent, ret, codes>>
           ELSE \E code \in SolveCodes, neweq \in Equilibria :
                /\ step' = r
                /\ q0_vals' = Histories(drv.variant = "dynamo", q0_vals, q1_psi_surf,
                                        r).q0_vals
                /\ q1_psi_surf' = Histories(drv.variant = "dynamo", q0_vals, q1_psi_surf,
                                            r).q1_psi_surf
                /\ sent' = [pp_prof |-> Prepared(r.pp_prof), ffp_prof |-> Prepared(r.ffp_prof)]
                /\ calls' = calls \o RoundCalls(FALSE)
                /\ codes' = Append(codes, code)
                /\ eq' = neweq
                /\ inductive_jtor' = r.inductive_jtor
                /\ rescale_ind_Jtor_by_ftr' = FtrNextRound(rescale_ind_Jtor_by_ftr)
                /\ q_1_psi_location' = IF drv.variant = "dynamo" THEN r.q_1_psi_location
                                       ELSE q_1_psi_location
                /\ UNCHANGED <<flag_end, exc, n>>
                /\ IF InitFailed(drv.initialize_eq, code)
                   THEN /\ pc' = "returned"
                        /\ ret' = InitFailure(drv.variant, code)
                        /\ flag' = code
                   ELSE /\ pc' = "iter"
                        /\ flag' = -1
                        /\ UNCHANGED ret
    /\ UNCHANGED <<drv, Ip_target, pax_target>>
    /\ UNCHANGED cross_vars

\* whether the quartic spline of the redistributed profile shows an inboard
\* maximum is scipy's finding: either, whenever a redistribution runs
Bumps(variant, eq_) ==
    IF variant = "dynamo" /\ NeedsRedistribution(eq_.qvals[1] - QTarget)
    THEN BOOLEAN ELSE {FALSE}

\* one pass of the while n <= max_iterations loop
IterRound ==
    /\ pc = "iter"
    /\ LoopGuard(n, drv.max_iterations)
    /\ \E bump \in Bumps(drv.variant, eq) :
       \E r \in {profile_iteration(drv.variant, Ip_target, eq, drv.pressure,
                    inductive_jtor,
                    [init_Lmode |-> FALSE,
                     rescale_ind_Jtor_by_ftr |-> rescale_ind_Jtor_by_ftr,
                     smooth_inputs |-> drv.smooth_inputs, include_jBS |-> TRUE,
                     iteration |-> n, q_1_psi_location |-> q_1_psi_location,
                     jBS_scale |-> drv.jBS_scale, bump |-> bump])} :
           IF r.raised # "none"
           THEN /\ pc' = "raised"
                /\ exc' = r.raised
                /\ calls' = calls \o ReadsMade(drv.pressure, inductive_jtor)
                /\ step' = r
                /\ UNCHANGED <<n, flag, rescale_ind_Jtor_by_ftr, flag_end, q_1_psi_location,
                               q0_vals, q1_psi_surf, inductive_jtor, eq, sent, ret, codes>>
           ELSE \E pp \in {Prepared(r.pp_prof)}, ffp \in {Prepared(r.ffp_prof)},
                   dynamo \in {drv.variant = "dynamo"} :
                \E q0s \in {Histories(dynamo, q0_vals, q1_psi_surf, r).q0_vals},
                   q1s \in {Histories(dynamo, q0_vals, q1_psi_surf, r).q1_psi_surf} :
                \E code \in SolveCodes, neweq \in Equilibria :
                \* _,qvals,ravgs,_,_,_ = self.get_q(npsi=len(j_BS))
                \E fe \in {dynamo /\ BandReached(neweq.qvals[1])} :
                \E result \in {Result(drv.variant, code, r, pp, ffp, q0s, q1s,
                                      neweq.qvals, drv.pressure[1], fe)} :
                    /\ step' = r
                    /\ q0_vals' = q0s
                    /\ q1_psi_surf' = q1s
                    /\ sent' = [pp_prof |-> pp, ffp_prof |-> ffp]
                    /\ calls' = calls \o RoundCalls(dynamo)
                    /\ codes' = Append(codes, code)
                    /\ eq' = neweq
                    /\ flag' = code
                    /\ flag_end' = fe
                    /\ inductive_jtor' = r.inductive_jtor
                    /\ q_1_psi_location' = IF dynamo THEN r.q_1_psi_location
                                           ELSE q_1_psi_location
                    /\ rescale_ind_Jtor_by_ftr' = FtrNextRound(rescale_ind_Jtor_by_ftr)
                    /\ n' = n + 1
                    /\ IF SolveFailed(code)
                       THEN pc' = "returned" /\ ret' = result /\ UNCHANGED exc
                       ELSE IF fe /\ code >= 0
                       THEN pc' = "returned" /\ ret' = result /\ UNCHANGED exc
                       ELSE IF Exhausted(n + 1, drv.max_iterations, code)
                       THEN pc' = "returned" /\ ret' = result /\ UNCHANGED exc
                       ELSE IF DidNotConverge(n + 1, drv.max_iterations)
                       THEN pc' = "raised" /\ exc' = "did not converge" /\ UNCHANGED ret
                       ELSE pc' = "iter" /\ UNCHANGED <<ret, exc>>
    /\ UNCHANGED <<drv, Ip_target, pax_target>>
    /\ UNCHANGED cross_vars

\* the loop condition fails: the final return hands back the locals of the
\* last pass; with no pass made (max_iterations < 0) pp_prof was never
\* assigned and the return fails
LoopExit ==
    /\ pc = "iter"
    /\ ~LoopGuard(n, drv.max_iterations)
    /\ IF n = 0
       THEN pc' = "raised" /\ exc' = "UnboundLocalError" /\ UNCHANGED ret
       ELSE /\ pc' = "returned"
            /\ ret' = Result(drv.variant, flag, step, sent.pp_prof, sent.ffp_prof,
                             q0_vals, q1_psi_surf, eq.qvals, drv.pressure[1], flag_end)
            /\ UNCHANGED exc
    /\ UNCHANGED <<Ip_target, pax_target, drv, eq, calls>>
    /\ UNCHANGED loop_vars
    /\ UNCHANGED cross_vars

Next == SetTargets \/ Reset \/ Start \/ LModeInit \/ IterRound \/ LoopExit

Spec == Init /\ [][Next]_vars

(***************************************************************************)
(* Single steps on a wide range of numerical inputs: the drivers right     *)
(* after their set-up, one round allowed.                                  *)
(***************************************************************************)
IpStates == {R(IpInitial), R(IpSentinel)} \cup IpValues

InitStep ==
    /\ drv \in StepArgs
    /\ Ip_target \in IpStates
    /\ pax_target = drv.pressure[1]
    /\ pc = IF drv.initialize_eq THEN "lmode" ELSE "iter"
    /\ n = 0
    /\ flag = IF drv.initialize_eq THEN 0 ELSE -1
    /\ rescale_ind_Jtor_by_ftr = drv.rescale_ind_Jtor_by_ftr
    /\ flag_end = FALSE
    /\ q_1_psi_location = FirstLocation(drv.variant, drv.initialize_eq)
    /\ q0_vals = <<>>
    /\ q1_psi_surf = <<>>
    /\ inductive_jtor = drv.inductive_jtor
    /\ eq \in EquilibriaWide
    /\ step = NoStep
    /\ sent = NoProfiles
    /\ ret = None
    /\ exc = "none"
    /\ calls = <<"set_targets">>
    /\ codes = <<>>
    /\ xin = NoCross
    /\ xout = NotFound

NextStep == LModeInit \/ IterRound

SpecStep == InitStep /\ [][NextStep]_vars

(***************************************************************************)
(* Direct calls of solve_for_psi_crossing on sampled q profiles.           *)
(***************************************************************************)
\* the calls: the grid, the q samples, the target, and the roots scipy finds
\* for the spline through them
\* roots of the end polynomials outside [0,1], which roots() also returns
\* (it extrapolates): none, one below 0, or one above 1
Extrapolated == {<<<<>>, <<>>>>, <<<<Q(-1, 4)>>, <<>>>>, <<<<>>, <<Q(5, 4)>>>>}

CrossCalls ==
    UNION { { [psi |-> linspace(NPsi), qvals |-> q, qmin |-> t,
               roots |-> e[1] \o r \o e[2]] :
                r \in SplineRoots(linspace(NPsi), q, t), e \in Extrapolated } :
            q \in [1..NPsi -> CrossQ], t \in CrossTargets }

InitCross ==
    /\ Ip_target = R(IpInitial)
    /\ pax_target = R(-1)
    /\ pc = "cross"
    /\ drv = NoDriver
    /\ n = 0
    /\ flag = 0
    /\ rescale_ind_Jtor_by_ftr = FALSE
    /\ flag_end = FALSE
    /\ q_1_psi_location = None
    /\ q0_vals = <<>>
    /\ q1_psi_surf = <<>>
    /\ inductive_jtor = <<>>
    /\ eq \in {Geometry(q, MinimalCells(q), Const(One), Const(One)) :
                 q \in {Tab(LAMBDA i : 150, NPsi)}}
    /\ step = NoStep
    /\ sent = NoProfiles
    /\ ret = None
    /\ exc = "none"
    /\ calls = <<>>
    /\ codes = <<>>
    /\ xin \in CrossCalls
    /\ xout = NotFound

\* found, psicross, i_near = solve_for_psi_crossing(psi, qvals, qmin)
Cross ==
    /\ pc = "cross"
    /\ xout' = solve_for_psi_crossing(xin.psi, xin.qvals, xin.qmin, xin.roots)
    /\ pc' = "crossed"
    /\ UNCHANGED <<Ip_target, pax_target, drv, eq, ret, exc, calls, xin>>
    /\ UNCHANGED loop_vars

NextCross == Cross

SpecCross == InitCross /\ [][NextCross]_vars

(***************************************************************************)
(* Properties of the drivers' loops (under Spec).                          *)
(***************************************************************************)
\* rounds of the ITERATING loop that reached their solve call: every solve
\* but the one of the L-mode initialisation
Rounds == Len(codes) - (IF drv.initialize_eq /\ codes # <<>> THEN 1 ELSE 0)

C2_NegativeCodeEndsRun ==
    \A i \in DOMAIN codes :
        (codes[i] < 0 /\ (i > 1 \/ ~drv.initialize_eq)) =>
            /\ i = Len(codes)
            /\ pc = "returned"
            /\ ret[1].flag = codes[i]
            /\ ret[1].fields["pp_prof"] = Some(sent.pp_prof)
            /\ ret[1].fields["ffp_prof"] = Some(sent.ffp_prof)
            /\ ret[1].fields["inductive_jtor"] = Some(step.inductive_jtor)
            /\ ret[1].fields["jtor_total"] = Some(step.jtor_total)
            /\ ret[1].fields["j_BS"] = step.j_BS
            /\ Cardinality({k \in DOMAIN calls : calls[k] = "solve"}) = Len(codes)
            /\ Cardinality({k \in DOMAIN calls : calls[k] = "set_profiles"}) = Len(codes)
            /\ Cardinality({k \in DOMAIN calls : calls[k] = "get_profiles"}) = Len(codes)

C2_FailedBeforeLastRound ==
    /\ pc = "returned"
    /\ Rounds >= 1
    /\ Rounds <= drv.max_iterations
    /\ codes[Len(codes)] < 0
    /\ ret[1].flag = codes[Len(codes)]

\* C3 (as the code has it): when initialize_eq is set and the L-mode solve
\* returns a negative code, the driver has returned that code after that one
\* solve, no ITERATING round was made, and every result field is None except
\* the dynamo driver's end flag, which is False.
C3_InitFailureReturnsEmpty ==
    (drv.initialize_eq /\ codes # <<>> /\ codes[1] < 0) =>
        /\ pc = "returned"
        /\ Len(codes) = 1
        /\ n = 0
        /\ Cardinality({k \in DOMAIN calls : calls[k] = "get_profiles"}) = 1
        /\ Cardinality({k \in DOMAIN calls : calls[k] = "set_profiles"}) = 1
        /\ ret[1].flag = codes[1]
        /\ \A k \in DOMAIN ret[1].fields :
              ret[1].fields[k] = IF k = "flag_end" THEN Some(FALSE) ELSE None

C3_DynamoInitFailed ==
    /\ drv.variant = "dynamo"
    /\ drv.initialize_eq
    /\ codes = <<-3>>
    /\ pc = "returned"
    /\ ret[1].fields["flag_end"] = Some(FALSE)

\* C3 as stated: after a failed L-mode solve every result field is None.
C3_AllFieldsNone ==
    (drv.initialize_eq /\ codes # <<>> /\ codes[1] < 0) =>
        /\ pc = "returned"
        /\ ret[1].flag = codes[1]
        /\ \A k \in DOMAIN ret[1].fields : ret[1].fields[k] = None

\* C4: no run of either driver reaches raise TypeError('... did not
\* converge'), whatever max_iterations, solve codes and post-solve q0.
C4_DidNotConvergeUnreachable == exc # "did not converge"

C4_LastRoundOutsideBand ==
    /\ drv.variant = "dynamo"
    /\ drv.max_iterations = MaxIter
    /\ n = MaxIter + 1
    /\ pc = "returned"
    /\ codes[Len(codes)] >= 0
    /\ ~flag_end

\* C5 as stated: after a dynamo round whose solve succeeded the loop has
\* stopped if and only if the post-solve q0 lies in the closed band
\* [1.02, 1.07] or the round count has passed max_iterations, and the end
\* flag is true exactly when q0 lies in that band.
C5_ClosedBandStops ==
    (/\ drv.variant = "dynamo"
     /\ pc \in {"iter", "returned"}
     /\ Rounds >= 1
     /\ codes[Len(codes)] >= 0) =>
        /\ (pc = "returned") <=>
              (eq.qvals[1] \in QTarget..QUpper \/ n > drv.max_iterations)
        /\ flag_end <=> eq.qvals[1] \in QTarget..QUpper

\* C8 as stated: with the Ip target in its constructor or reset state, or
\* set to a negative value, no profile_iteration rescales the inductive
\* current to the Ip target.
C8_DisabledTargetNeverRescales ==
    (Ip_target = R(IpInitial) \/ RLt(Ip_target, Zero)) => ~step.ip_rescaled

\* C17: a step that ends in the import error leaves the driver failed with
\* no call made into the equilibrium solver and with the targets, the
\* equilibrium, the profiles sent and the solve codes as they were.
C17_ImportErrorBeforeAnyCall ==
    [][(exc' = "ImportError" /\ exc # "ImportError") =>
          /\ pc' = "raised"
          /\ calls' = <<>>
          /\ ret' = None
          /\ UNCHANGED <<Ip_target, pax_target, eq, sent, codes, step>>]_vars

C17_ImportFailedAfterTargetsSet ==
    /\ exc = "ImportError"
    /\ pc = "raised"
    /\ Ip_target = R(12)
    /\ drv.variant = "dynamo"
    /\ calls = <<>>

\* C18 as stated: when a driver fails on kinetic profiles whose length
\* differs from that of inductive_jtor, or of zero length, no call into the
\* equilibrium solver has been made and the axis-pressure target still has
\* the value -1 it has whenever a driver starts.
C18_MalformedRejectedFirst ==
    (/\ pc = "raised"
     /\ drv.variant # "none"
     /\ Len(drv.pressure) # Len(drv.inductive_jtor)) =>
        /\ calls = <<>>
        /\ pax_target = R(-1)

\* C25 (as the code has it): in a redistribution with positive average
\* current density and positive crossing location, for q0 below 1.02 the
\* amplitude subtracted at rho=0 and the two added amplitudes are positive
\* (current leaves the axis); for q0 above 1.07 all three are negative
\* (current is added at the axis and removed outside); in both cases the
\* mid-radius amplitude is 0.3*(5 + iteration)/30 times
\* (0.03 - q_offset)*(average density), q_offset scaled by 0.8 when positive.
C25_AmplitudeSignsFollowOffset ==
    (/\ step.raised = "none"
     /\ step.redistributed
     /\ RLt(Zero, step.avg[1])
     /\ RLt(Zero, step.q_1_psi_location[1])) =>
        LET off == IF step.q0 > QTarget
                   THEN RMul(Q(8, 10), Q(step.q0 - QTarget, 100))
                   ELSE Q(step.q0 - QTarget, 100)
            drive == RMul(RSub(Q(3, 100), off), step.avg[1])
        IN  /\ step.q0 < QTarget =>
                  /\ RLt(Zero, step.amp[1])
                  /\ RLt(Zero, step.amp[2])
                  /\ RLt(Zero, step.amp[3])
            /\ step.q0 > QTarget + QBand =>
                  /\ RLt(step.amp[1], Zero)
                  /\ RLt(step.amp[2], Zero)
                  /\ RLt(step.amp[3], Zero)
            /\ step.amp[3] =
                  Coarse(RMul(RMul(Q(3, 10), Q(5 + step.iteration, 30)), drive))

C25_SecondRoundAboveBand ==
    /\ step.raised = "none"
    /\ step.redistributed
    /\ step.iteration = 1
    /\ step.q0 > QTarget + QBand
    /\ RLt(Zero, step.avg[1])
    /\ RLt(Zero, step.q_1_psi_location[1])
    /\ RLt(step.amp[1], Zero)
    /\ RLt(step.amp[3], Zero)

\* C25 as stated: whenever the redistribution is applied with positive
\* average current density and positive crossing location, the amplitude
\* subtracted at rho=0 and the two added amplitudes are positive.
C25_AxisAlwaysReduced ==
    (/\ step.raised = "none"
     /\ step.redistributed
     /\ RLt(Zero, step.avg[1])
     /\ RLt(Zero, step.q_1_psi_location[1])) =>
        /\ RLt(Zero, step.amp[1])
        /\ RLt(Zero, step.amp[2])
        /\ RLt(Zero, step.amp[3])

\* C30 as stated: no dynamo step whose q0 is above the band and whose
\* crossing search found nothing fails on the location it falls back to.
C30_FallbackIsANumber ==
    ~(/\ drv.variant = "dynamo"
      /\ step.raised = "TypeError"
      /\ step.searched
      /\ step.q0 - QTarget > QBand)

\* C26: in the record of the calls into the equilibrium solver every solve
\* comes right after exactly one set_profiles, every set_profiles is followed
\* at once by its solve and comes right after the three geometry reads of
\* its own round, the reads of a round start only after set_targets or after
\* the solve of the round before (and the dynamo's get_q that follows that
\* solve), and the profiles last sent are those the last step produced.
C26_SolverCallsSequenced ==
    /\ \A i \in 1..Len(calls) :
        /\ calls[i] = "solve" =>
               /\ i > 1 /\ calls[i - 1] = "set_profiles"
               /\ i > 2 /\ calls[i - 2] # "set_profiles"
        /\ calls[i] = "set_profiles" =>
               /\ i < Len(calls) /\ calls[i + 1] = "solve"
               /\ i > 3
               /\ <<calls[i - 3], calls[i - 2], calls[i - 1]>>
                      = <<"get_profiles", "sauter_fc", "get_q">>
        /\ calls[i] = "get_profiles" =>
               /\ i > 1
               /\ \/ calls[i - 1] = "set_targets"
                  \/ calls[i - 1] = "solve"
                  \/ calls[i - 1] = "get_q" /\ i > 2 /\ calls[i - 2] = "solve"
    /\ (codes # <<>> /\ step.raised = "none") =>
           sent = [pp_prof |-> Prepared(step.pp_prof),
                   ffp_prof |-> Prepared(step.ffp_prof)]

\* C26 witness: a dynamo run in which two rounds were completed one after the
\* other
C26_TwoRoundsInARow ==
    /\ drv.variant = "dynamo"
    /\ Len(codes) >= 2
    /\ step.raised = "none"
    /\ Len(SelectSeq(calls, LAMBDA c : c = "solve")) = Len(codes)

\* C28: in a dynamo run the q0 history and the crossing-location history
\* both have one entry per completed profile_iteration call (each is followed
\* by one solve, the L-mode one included, whatever code that solve gives),
\* their last entries are what the last completed call returned, and a
\* return after at least one ITERATING round hands back both lists.
C28_HistoriesInStep ==
    drv.variant = "dynamo" =>
        /\ Len(q0_vals) = Len(codes)
        /\ Len(q1_psi_surf) = Len(codes)
        /\ (codes # <<>> /\ step.raised = "none") =>
               /\ q0_vals[Len(codes)] = step.q0
               /\ q1_psi_surf[Len(codes)] = step.q_1_psi_location
        /\ (pc = "returned" /\ Rounds >= 1) =>
               /\ ret[1].fields["q0_vals"] = Some(q0_vals)
               /\ ret[1].fields["q1_psi_surf"] = Some(q1_psi_surf)

\* C28 witness: a dynamo run with the L-mode initialisation returns after a
\* failed solve in a round that recorded no crossing location
C28_ReturnedWithEmptyLocation ==
    /\ drv.variant = "dynamo"
    /\ drv.initialize_eq
    /\ pc = "returned"
    /\ flag < 0
    /\ Len(q0_vals) >= 2
    /\ IsNone(q1_psi_surf[Len(q1_psi_surf)])
    /\ ~IsNone(q1_psi_surf[1])

\* C29: a profile_iteration call of a driver run reshapes the inductive
\* current by the passing fraction only if the caller asked for it and no
\* call of the run was completed before it: it is the L-mode call when
\* initialize_eq is set and the round n = 0 otherwise; once a call has been
\* completed the flag handed to later calls is off.
C29_ReshapedOnceAtMost ==
    [][/\ (calls' # calls /\ pc \in {"lmode", "iter"} /\ step'.ftr_applied) =>
            /\ codes = <<>>
            /\ drv.rescale_ind_Jtor_by_ftr
            /\ pc = (IF drv.initialize_eq THEN "lmode" ELSE "iter")
            /\ n = 0
       /\ (codes' # <<>> /\ pc' \in {"lmode", "iter"}) => ~rescale_ind_Jtor_by_ftr']_vars

\* C29 witness: a run asked to reshape has completed a second call, and that
\* call did not reshape
C29_LaterRoundNotReshaped ==
    /\ drv.rescale_ind_Jtor_by_ftr
    /\ Len(codes) >= 2
    /\ step.raised = "none"
    /\ ~step.ftr_applied

(***************************************************************************)
(* Properties of one profile_iteration and of what is sent (under          *)
(* SpecStep).                                                              *)
(***************************************************************************)
\* C6: both profiles of every set_profiles call have x and y of equal
\* length, a last sample of exactly 0 and no not-a-number sample.
C6_SentProfilesClean ==
    sent # NoProfiles =>
        \A prof \in {sent.pp_prof, sent.ffp_prof} :
            /\ Len(prof.x) = Len(prof.y)
            /\ prof.y[Len(prof.y)] = Zero
            /\ \A i \in DOMAIN prof.y : ~IsNaN(prof.y[i])

C6_NaNWasReplaced ==
    /\ sent # NoProfiles
    /\ \E i \in DOMAIN step.pp_prof.y : IsNaN(step.pp_prof.y[i])
    /\ \E i \in DOMAIN step.ffp_prof.y :
          i < Len(step.ffp_prof.y) /\ IsFinite(step.ffp_prof.y[i])
              /\ step.ffp_prof.y[i] # Zero

C9_NotFoundSkipsRedistribution ==
    (step.searched /\ ~step.found /\ step.raised # "AssertionError") =>
        /\ step.raised = "none"
        /\ exc = "none"
        /\ step.before_rescale = step.before_redistribution

C24_NoSampleBelowCrossing ==
    (step.raised = "none" /\ step.redistributed /\ step.found) =>
        \A i \in 1..(step.i_near[1] - 1) :
            ~RLt(step.clamped[i], step.clamped[step.i_near[1]])

\* C27 as stated: the inductive_jtor array handed to profile_iteration has,
\* when the call returns, the values it had on entry.
C27_InputArrayUntouched ==
    step.raised = "none" => step.input_after = step.input

(***************************************************************************)
(* Properties of solve_for_psi_crossing (under SpecCross).                 *)
(***************************************************************************)
\* C10 as stated: when q - q_target is strictly positive at the first grid
\* point and not positive somewhere, the call returns found=false with no
\* location and no index.
C10_PositiveAxisMeansHollow ==
    (/\ pc = "crossed"
     /\ xin.qvals[1] - xin.qmin > 0
     /\ \E i \in DOMAIN xin.qvals : xin.qvals[i] - xin.qmin <= 0) =>
        xout = NotFound

(***************************************************************************)
(* Direct calls of rescale_Jtor, of the two current conversions and of     *)
(* set_targets.                                                            *)
(***************************************************************************)
\* sample values of the profiles handed to the calls
Samples == {R(-1), Zero, One, R(2)}

\* the coordinate arrays a_avgs: increasing from 0
Coordinates == {Tab(LAMBDA i : R(i - 1), NPsi), Tab(LAMBDA i : R((i - 1) * i), NPsi)}

RescaleCalls ==
    [fn : {"rescale_Jtor"}, jtor_total : [1..NPsi -> Samples],
     Ip_target : {R(-3), Zero, R(2)}, a_avgs : Coordinates]

\* the profile v is a jtor for "write_read" and an ffprime for "read_write"
ConvertCalls ==
    [fn : {"write_read", "read_write"}, v : [1..NPsi -> {R(-1), Zero, R(2)}],
     pprime : {Const(Zero), Ramp(1, 1)},
     R_avg : {Const(R(2)), Tab(LAMBDA i : R(i), NPsi)},
     one_over_R_avg : {Const(Q(1, 2)), Tab(LAMBDA i : Q(-1, i), NPsi)}]

TargetCalls ==
    [fn : {"set_targets"}, Ip : {None, Some(R(12)), Some(R(-5))},
     pax : {None, Some(R(4))}, retain_previous : BOOLEAN,
     old_Ip : IpStates, old_pax : {R(-1), R(3)}]

InitCalls ==
    /\ xin \in RescaleCalls \/ xin \in ConvertCalls \/ xin \in TargetCalls
    /\ Ip_target = IF xin.fn = "set_targets" THEN xin.old_Ip ELSE R(IpInitial)
    /\ pax_target = IF xin.fn = "set_targets" THEN xin.old_pax ELSE R(-1)
    /\ pc = "call"
    /\ drv = NoDriver
    /\ n = 0
    /\ flag = 0
    /\ rescale_ind_Jtor_by_ftr = FALSE
    /\ flag_end = FALSE
    /\ q_1_psi_location = None
    /\ q0_vals = <<>>
    /\ q1_psi_surf = <<>>
    /\ inductive_jtor = <<>>
    /\ eq \in {Geometry(q, MinimalCells(q), Const(One), Const(One)) :
                 q \in {Tab(LAMBDA i : 150, NPsi)}}
    /\ step = NoStep
    /\ sent = NoProfiles
    /\ ret = None
    /\ exc = "none"
    /\ calls = <<>>
    /\ codes = <<>>
    /\ xout = NotFound

\* jtor, k = rescale_Jtor(jtor_total, Ip_target, a_avgs)
Rescale ==
    /\ pc = "call"
    /\ xin.fn = "rescale_Jtor"
    /\ xout' = [first |-> rescale_Jtor(xin.jtor_total, xin.Ip_target, xin.a_avgs)]
    /\ pc' = "rescaled"
    /\ UNCHANGED <<Ip_target, pax_target, drv, eq, ret, exc, calls, xin>>
    /\ UNCHANGED loop_vars

\* the result is handed to rescale_Jtor again with the same target
RescaleAgain ==
    /\ pc = "rescaled"
    /\ xout' = [first |-> xout.first,
                second |-> rescale_Jtor(xout.first.jtor, xin.Ip_target, xin.a_avgs)]
    /\ pc' = "rescaled twice"
    /\ UNCHANGED <<Ip_target, pax_target, drv, eq, ret, exc, calls, xin>>
    /\ UNCHANGED loop_vars

\* ffprime_from_jtor_pprime, then jtor_from_ffprime_pprime on its result
WriteRead ==
    /\ pc = "call"
    /\ xin.fn = "write_read"
    /\ \E ffprime \in {ffprime_from_jtor_pprime(xin.v, xin.pprime, xin.R_avg,
                                                xin.one_over_R_avg)} :
          xout' = [mid |-> ffprime,
                   back |-> jtor_from_ffprime_pprime(ffprime, xin.pprime, xin.R_avg,
                                                     xin.one_over_R_avg)]
    /\ pc' = "converted"
    /\ UNCHANGED <<Ip_target, pax_target, drv, eq, ret, exc, calls, xin>>
    /\ UNCHANGED loop_vars

\* jtor_from_ffprime_pprime, then ffprime_from_jtor_pprime on its result
ReadWrite ==
    /\ pc = "call"
    /\ xin.fn = "read_write"
    /\ \E jtor \in {jtor_from_ffprime_pprime(xin.v, xin.pprime, xin.R_avg,
                                             xin.one_over_R_avg)} :
          xout' = [mid |-> jtor,
                   back |-> ffprime_from_jtor_pprime(jtor, xin.pprime, xin.R_avg,
                                                     xin.one_over_R_avg)]
    /\ pc' = "converted"
    /\ UNCHANGED <<Ip_target, pax_target, drv, eq, ret, exc, calls, xin>>
    /\ UNCHANGED loop_vars

\* self.set_targets(Ip=..., pax=..., retain_previous=...)
CallSetTargets ==
    /\ pc = "call"
    /\ xin.fn = "set_targets"
    /\ Ip_target' = set_targets_Ip(Ip_target, xin.Ip, xin.retain_previous)
    /\ pax_target' = set_targets_pax(pax_target, xin.pax, xin.retain_previous)
    /\ pc' = "targets set"
    /\ calls' = <<"set_targets">>
    /\ UNCHANGED <<drv, eq, ret, exc>>
    /\ UNCHANGED loop_vars
    /\ UNCHANGED cross_vars

NextCalls == Rescale \/ RescaleAgain \/ WriteRead \/ ReadWrite \/ CallSetTargets

SpecCalls == InitCalls /\ [][NextCalls]_vars

(***************************************************************************)
(* Properties of the direct calls (under SpecCalls).                       *)
(***************************************************************************)
\* C13: rescale_Jtor returns a profile of the same length whose every sample
\* is the input sample times the returned factor k, with k times the input's
\* integral equal to Ip_target when that integral is finite and not zero;
\* for finite k the ratios between samples are kept and the sign of each
\* sample is its old sign times the signs of Ip_target and of the integral.
C13_OneUniformFactor ==
    pc \in {"rescaled", "rescaled twice"} =>
        LET x == xin.jtor_total
            y == xout.first.jtor
            k == xout.first.fac
            I == cross_section_surf_int(x, xin.a_avgs)
        IN  /\ Len(y) = Len(x)
            /\ \A i \in DOMAIN x : y[i] = RMul(k, x[i])
            /\ (IsFinite(I) /\ I # Zero) => RMul(k, I) = xin.Ip_target
            /\ IsFinite(k) =>
                  /\ \A i, j \in DOMAIN x : RMul(y[i], x[j]) = RMul(y[j], x[i])
                  /\ \A i \in DOMAIN x :
                        RSgn(y[i]) = RSgn(x[i]) * RSgn(xin.Ip_target) * RSgn(I)

C13_SignFlipped ==
    /\ pc = "rescaled"
    /\ IsFinite(xout.first.fac)
    /\ RLt(xout.first.fac, Zero)
    /\ \E i, j \in DOMAIN xin.jtor_total :
          RLt(xin.jtor_total[i], Zero) /\ RLt(Zero, xin.jtor_total[j])
    /\ RLt(Zero, xin.Ip_target)

\* C14: for a profile with finite nonzero integral and a nonzero Ip_target,
\* rescale_Jtor applied to its own output with the same target and
\* coordinates returns the same profile and the factor 1; and the integral of
\* k times a profile is k times the integral of the profile.
C14_RescaleIdempotent ==
    (/\ pc = "rescaled twice"
     /\ IsFinite(cross_section_surf_int(xin.jtor_total, xin.a_avgs))
     /\ cross_section_surf_int(xin.jtor_total, xin.a_avgs) # Zero
     /\ xin.Ip_target # Zero) =>
        /\ xout.second.jtor = xout.first.jtor
        /\ xout.second.fac = One
        /\ cross_section_surf_int(xout.first.jtor, xin.a_avgs) =
              RMul(xout.first.fac, cross_section_surf_int(xin.jtor_total, xin.a_avgs))

C14_RescaledTwiceNegative ==
    /\ pc = "rescaled twice"
    /\ IsFinite(xout.first.fac)
    /\ RLt(xout.first.fac, Zero)
    /\ xout.first.jtor # xin.jtor_total
    /\ xout.second.jtor = xout.first.jtor
    /\ xout.second.fac = One

\* C15 as stated: when the integral of the input profile is exactly 0 the
\* call fails with a division error, and no call returns an infinite or
\* not-a-number factor.
C15_ZeroIntegralRaises ==
    (/\ pc = "rescaled"
     /\ cross_section_surf_int(xin.jtor_total, xin.a_avgs) = Zero) =>
        /\ exc = "ZeroDivisionError"
        /\ IsFinite(xout.first.fac)

\* C16: for finite profiles and nonzero one_over_R_avg the two conversions
\* undo each other in either order.
C16_ConversionsInverse ==
    pc = "converted" => xout.back = xin.v

C16_RoundTripWithPressure ==
    /\ pc = "converted"
    /\ xin.fn = "write_read"
    /\ \E i \in DOMAIN xin.v : xin.pprime[i] # Zero /\ xin.v[i] # Zero
    /\ xout.mid # xin.v
    /\ xout.back = xin.v

C11_SingleCrossingFound ==
    (/\ pc = "crossed"
     /\ \A i \in DOMAIN xin.qvals : xin.qvals[i] # xin.qmin
     /\ Len(InnerRoots(xin.roots)) = 1) =>
        /\ xout.found
        /\ xout.psicross = Some(InnerRoots(xin.roots)[1])

\* C12: when every q sample is strictly greater than the target the call
\* returns found=false with no location and no index, and whenever it
\* returns found=false the location and the index are both none.
C12_AboveTargetNotFound ==
    pc = "crossed" =>
        /\ (\A i \in DOMAIN xin.qvals : xin.qvals[i] > xin.qmin) => xout = NotFound
        /\ ~xout.found => (IsNone(xout.psicross) /\ IsNone(xout.i_near))

C12_AboveWithSplineDip ==
    /\ pc = "crossed"
    /\ \A i \in DOMAIN xin.qvals : xin.qvals[i] > xin.qmin
    /\ Len(InnerRoots(xin.roots)) = 2
    /\ xout = NotFound

\* C20 as stated: a call that reaches the root finding with exactly two
\* roots strictly inside (0,1) never raises; it returns found=false when the
\* roots are more than 0.3 apart and min(q) < q_target - 0.1, and otherwise
\* found=true with the larger root.
C20_TwoRootsNeverRaise ==
    (/\ pc = "crossed"
     /\ ReachesRoots(xin.qvals, xin.qmin)
     /\ Len(InnerRoots(xin.roots)) = 2) =>
        /\ ~xout.raised
        /\ IF /\ RLt(RootSpread, RSub(InnerRoots(xin.roots)[2], InnerRoots(xin.roots)[1]))
              /\ MinOf(xin.qvals) < xin.qmin - DipDepth
           THEN xout = NotFound
           ELSE xout.found /\ xout.psicross = Some(InnerRoots(xin.roots)[2])

\* C21: when the samples are neither all above the target nor hollow by the
\* code's test and some sample has deviation exactly 0, the call returns
\* found=true with the psi value and the index of the first such sample,
\* whatever roots the spline has.
C21_ExactGridHit ==
    (/\ pc = "crossed"
     /\ \E i \in DOMAIN xin.qvals : xin.qvals[i] - xin.qmin <= 0
     /\ ~(xin.qvals[1] - xin.qmin > xin.qmin)
     /\ \E i \in DOMAIN xin.qvals : xin.qvals[i] = xin.qmin) =>
        LET k == CHOOSE i \in DOMAIN xin.qvals :
                    /\ xin.qvals[i] = xin.qmin
                    /\ \A j \in 1..(i - 1) : xin.qvals[j] # xin.qmin
        IN  /\ ~xout.raised
            /\ xout.found
            /\ xout.psicross = Some(xin.psi[k])
            /\ xout.i_near = Some(k)

C21_HitWithRootsElsewhere ==
    /\ pc = "crossed"
    /\ xout.found
    /\ xin.qvals[xout.i_near[1]] = xin.qmin
    /\ xout.psicross = Some(xin.psi[xout.i_near[1]])
    /\ \E j \in DOMAIN xin.roots :
          RLt(Zero, xin.roots[j]) /\ RLt(xin.roots[j], One)
    /\ \A j \in DOMAIN xin.roots : xin.roots[j] # xout.psicross[1]

\* C22: in a call that reaches the root finding, counting only the roots
\* strictly inside (0,1): no root gives found=false; one root gives
\* found=true at that root; three roots give found=false when the largest
\* minus the smallest exceeds 0.3 and found=true at the largest otherwise;
\* more than three roots give found=false.
C22_RootCountDecides ==
    (pc = "crossed" /\ ReachesRoots(xin.qvals, xin.qmin)) =>
        LET inner == SelectSeq(xin.roots, LAMBDA x : RLt(Zero, x) /\ RLt(x, One))
        IN  /\ Len(inner) = 0 => xout = NotFound
            /\ Len(inner) = 1 =>
                  (~xout.raised /\ xout.found /\ xout.psicross = Some(inner[1]))
            /\ Len(inner) = 3 =>
                  IF RLt(Q(3, 10), RSub(inner[3], inner[1]))
                  THEN xout = NotFound
                  ELSE (~xout.raised /\ xout.found /\ xout.psicross = Some(inner[3]))
            /\ Len(inner) > 3 => xout = NotFound

C22_ThreeCloseRootsOneOutside ==
    /\ pc = "crossed"
    /\ ReachesRoots(xin.qvals, xin.qmin)
    /\ Len(xin.roots) = 4
    /\ Len(SelectSeq(xin.roots, LAMBDA x : RLt(Zero, x) /\ RLt(x, One))) = 3
    /\ xout.found
    /\ RLt(xout.psicross[1], Q(1, 2))

=============================================================================
